---- MODULE Spec2Model ----
(***************************************************************************)
(* PWM actuation layer of robocar-pca9685-python:                          *)
(*   donkeycar/utils.py          map_range                                 *)
(*   donkeycar/parts/actuator.py PulseController, PWMSteering, PWMThrottle *)
(*   pca9685/cli.py              the wiring of the running program         *)
(*                                                                         *)
(* map_range computes in Python floats (IEEE-754 binary64, round to        *)
(* nearest, ties to even).  The model computes the same way: a float is a  *)
(* sign, a 53-bit significand and an exponent, and /, +, - and // round as *)
(* the hardware does.                                                      *)
(***************************************************************************)
EXTENDS Integers, Sequences, FiniteSets, TLC

(***************************************************************************)
(* Evaluation.  An operator's argument is an expression, evaluated again    *)
(* wherever the operator's body uses it.  Bind(x, F) evaluates x once and  *)
(* applies F to its value.                                                 *)
(***************************************************************************)
Only(S) == CHOOSE v \in S : TRUE

Bind(x, F(_)) == Only({F(v) : v \in {x}})

Bind2(x, y, F(_, _)) == Only({F(u, v) : u \in {x}, v \in {y}})

(***************************************************************************)
(* Wide naturals.  TLC's integers are 32 bits wide; a significand has 53   *)
(* bits.  A wide natural <<hi, lo>> is hi * 2^30 + lo with 0 <= lo < 2^30. *)
(***************************************************************************)
Pow2(n) == 2 ^ n

LoBase == Pow2(30)

WZero == <<0, 0>>

WIsZero(a) == a[1] = 0 /\ a[2] = 0

WLess(a, b) == a[1] < b[1] \/ (a[1] = b[1] /\ a[2] < b[2])

\* a - b, for a >= b
WSubV(a, b) ==
    IF a[2] >= b[2] THEN <<a[1] - b[1], a[2] - b[2]>>
    ELSE <<a[1] - b[1] - 1, a[2] + LoBase - b[2]>>

WSub(a, b) == Bind2(a, b, WSubV)

WAddV(a, b) ==
    Bind(a[2] + b[2], LAMBDA l : <<a[1] + b[1] + (l \div LoBase), l % LoBase>>)

WAdd(a, b) == Bind2(a, b, WAddV)

\* bit i (0 = least significant) of a, i < 60
WBit(a, i) ==
    IF i < 30 THEN (a[2] \div Pow2(i)) % 2 ELSE (a[1] \div Pow2(i - 30)) % 2

\* floor(a / 2^k), 0 <= k
WShr(a, k) ==
    IF k = 0 THEN a
    ELSE IF k >= 60 THEN WZero
    ELSE IF k >= 30 THEN <<0, a[1] \div Pow2(k - 30)>>
    ELSE <<a[1] \div Pow2(k),
           (a[2] \div Pow2(k)) + (a[1] % Pow2(k)) * Pow2(30 - k)>>

\* a mod 2^k # 0
WLowBits(a, k) ==
    IF k = 0 THEN FALSE
    ELSE IF k >= 60 THEN ~WIsZero(a)
    ELSE IF k >= 30 THEN a[2] # 0 \/ a[1] % Pow2(k - 30) # 0
    ELSE a[2] % Pow2(k) # 0

\* a * 2^k, for a * 2^k < 2^60
WShl(a, k) ==
    IF k = 0 THEN a
    ELSE IF k >= 30 THEN <<a[2] * Pow2(k - 30), 0>>
    ELSE <<a[1] * Pow2(k) + (a[2] \div Pow2(30 - k)),
           (a[2] % Pow2(30 - k)) * Pow2(k)>>

\* number of significant bits of n, 0 <= n < 2^31
BitLen(n) ==
    IF n = 0 THEN 0
    ELSE CHOOSE k \in 1..31 : Pow2(k - 1) <= n /\ (k = 31 \/ n < Pow2(k))

\* number of significant bits of a
WLen(a) == IF a[1] > 0 THEN 30 + BitLen(a[1]) ELSE BitLen(a[2])

\* a * q, for a < 2^53 and 0 <= q < 2^7
WMulSmall(a, q) ==
    Bind((a[2] \div Pow2(15)) * q, LAMBDA t :
    Bind((t % Pow2(15)) * Pow2(15) + (a[2] % Pow2(15)) * q, LAMBDA l :
        <<a[1] * q + (t \div Pow2(15)) + (l \div LoBase), l % LoBase>>))

(***************************************************************************)
(* binary64 values: [s |-> 1 or -1, m |-> wide natural, e |-> exponent],   *)
(* value s * m * 2^e, with m = 0 or 2^52 <= m < 2^53.  The operands of     *)
(* map_range stay far from the overflow and subnormal ranges.              *)
(***************************************************************************)
FZero == [s |-> 1, m |-> WZero, e |-> 0]

FIsZero(f) == WIsZero(f.m)

\* the n > 53 bits of m rounded to 53, ties to even
FRoundBits(s, m, sticky, e, n) ==
    LET k    == n - 53
        half == WBit(m, k - 1) = 1
        rest == WLowBits(m, k - 1) \/ sticky
    IN  Bind(WShr(m, k), LAMBDA q :
        Bind(IF half /\ (rest \/ WBit(q, 0) = 1) THEN WAdd(q, <<0, 1>>) ELSE q, LAMBDA r :
            IF WLen(r) = 54
            THEN [s |-> s, m |-> WShr(r, 1), e |-> e + k + 1]
            ELSE [s |-> s, m |-> r, e |-> e + k]))

\* Round s * (m + fraction) * 2^e to 53 bits, ties to even; the fraction,
\* in (0, 1), is there when sticky.  m has at least 54 bits or is exact.
FRound(s, m, sticky, e) ==
    Bind(WLen(m), LAMBDA n :
        IF n = 0 THEN FZero
        ELSE IF n <= 53 THEN [s |-> s, m |-> WShl(m, 53 - n), e |-> e - (53 - n)]
        ELSE FRoundBits(s, m, sticky, e, n))

\* int -> float (exact below 2^53)
FromInt(n) ==
    IF n = 0 THEN FZero
    ELSE FRound(IF n < 0 THEN -1 ELSE 1, <<0, IF n < 0 THEN -n ELSE n>>, FALSE, 0)

FNeg(f) == Bind(f, LAMBDA v : [v EXCEPT !.s = -v.s])

\* One step of long division by b (2^52 <= b < 2^53) in radix 2^7:
\* st = <<quotient so far, remainder r < b>>.  The digit is estimated from
\* the leading words (never too large, at most one too small) and corrected.
WDivDigit(b, st) ==
    Bind(WShl(st[2], 7), LAMBDA R :
    Bind(R[1] \div (b[1] + 1), LAMBDA est :
    Bind(WSub(R, WMulSmall(b, est)), LAMBDA rem :
        IF WLess(rem, b)
        THEN <<WAdd(WShl(st[1], 7), <<0, est>>), rem>>
        ELSE <<WAdd(WShl(st[1], 7), <<0, est + 1>>), WSub(rem, b)>>)))

\* <<floor(a * 2^56 / b), remainder>> for significands a, b in [2^52, 2^53):
\* the integer digit, then eight radix-2^7 digits.
WDivMod(a, b) ==
    Bind(IF WLess(a, b) THEN <<WZero, a>> ELSE <<<<0, 1>>, WSub(a, b)>>, LAMBDA st0 :
    Bind(WDivDigit(b, st0), LAMBDA st1 :
    Bind(WDivDigit(b, st1), LAMBDA st2 :
    Bind(WDivDigit(b, st2), LAMBDA st3 :
    Bind(WDivDigit(b, st3), LAMBDA st4 :
    Bind(WDivDigit(b, st4), LAMBDA st5 :
    Bind(WDivDigit(b, st5), LAMBDA st6 :
    Bind(WDivDigit(b, st6), LAMBDA st7 : WDivDigit(b, st7)))))))))

FDivV(a, b) ==
    IF FIsZero(a) \/ FIsZero(b) THEN FZero
    ELSE Bind(WDivMod(a.m, b.m), LAMBDA qr :
            FRound(a.s * b.s, qr[1], ~WIsZero(qr[2]), a.e - b.e - 56))

\* a / b, correctly rounded; b # 0 (the caller has raised ZeroDivisionError)
FDiv(a, b) == Bind2(a, b, FDivV)

\* the operand lo of smaller exponent aligned to hi, d = hi.e - lo.e, with
\* three extra bits; the bits shifted out are kept as a sticky bit
FAlign(m, d) ==
    Bind(WShl(m, 3), LAMBDA w :
    Bind(WShr(w, d), LAMBDA t :
        IF WLowBits(w, d) /\ WBit(t, 0) = 0 THEN WAdd(t, <<0, 1>>) ELSE t))

\* hiF.e >= loF.e; big and sml in units of 2^e
FAddAligned(hiF, loF, big, sml, e) ==
    IF hiF.s = loF.s THEN FRound(hiF.s, WAdd(big, sml), FALSE, e)
    ELSE IF WLess(big, sml) THEN FRound(loF.s, WSub(sml, big), FALSE, e)
    ELSE FRound(hiF.s, WSub(big, sml), FALSE, e)

FAddOrdered(hiF, loF) ==
    LET d == hiF.e - loF.e IN
    IF d <= 3
    THEN Bind2(WShl(hiF.m, 3 + d), WShl(loF.m, 3),
               LAMBDA big, sml : FAddAligned(hiF, loF, big, sml, loF.e - 3))
    ELSE Bind2(WShl(hiF.m, 3), FAlign(loF.m, d),
               LAMBDA big, sml : FAddAligned(hiF, loF, big, sml, hiF.e - 3))

FAddV(a, b) ==
    IF FIsZero(a) THEN b
    ELSE IF FIsZero(b) THEN a
    ELSE IF a.e >= b.e THEN FAddOrdered(a, b) ELSE FAddOrdered(b, a)

\* a + b, correctly rounded
FAdd(a, b) == Bind2(a, b, FAddV)

FSub(a, b) == FAdd(a, FNeg(b))

FFloorV(f) ==
    IF FIsZero(f) THEN 0
    ELSE Bind(WShr(f.m, -f.e)[2], LAMBDA ip :
            IF f.s = 1 THEN ip
            ELSE IF WLowBits(f.m, -f.e) THEN -ip - 1 ELSE -ip)

\* int(f // 1): the floor of f, |f| < 2^30
FFloor(f) == Bind(f, FFloorV)

FTruncV(f) ==
    IF FIsZero(f) THEN 0
    ELSE Bind(WShr(f.m, -f.e)[2], LAMBDA ip : IF f.s = 1 THEN ip ELSE -ip)

\* int(f): truncation toward zero, |f| < 2^30
FTrunc(f) == Bind(f, FTruncV)

FMulIntV(n, f) ==
    IF n = 0 \/ FIsZero(f) THEN FZero
    ELSE FRound(f.s, <<0, n * WShr(f.m, 41)[2]>>, FALSE, f.e + 41)

\* n * f for an int n, 0 <= n < 2^12, and a float f whose significand has at
\* most 12 bits (1.0, 0.5, 2.0, 0.75, ...): the product is exact.
FMulInt(n, f) == Bind2(n, f, FMulIntV)

\* a float p / q of the inputs
Ratio(p, q) == FDiv(FromInt(p), FromInt(q))

(***************************************************************************)
(* donkeycar/utils.py                                                      *)
(***************************************************************************)
\* X_range / Y_range divides by zero when the two pulses coincide
map_range_raises(Y_min, Y_max) == Y_max - Y_min = 0

\* int(((x - X_min) / XY_ratio + Y_min) // 1); x a float, the rest ints
map_range(x, X_min, X_max, Y_min, Y_max) ==
    LET X_range == X_max - X_min
        Y_range == Y_max - Y_min
    IN  Bind(FDiv(FromInt(X_range), FromInt(Y_range)), LAMBDA XY_ratio :
        Bind(FAdd(FDiv(FSub(x, FromInt(X_min)), XY_ratio), FromInt(Y_min)), LAMBDA y :
            FFloor(y)))

(***************************************************************************)
(* donkeycar/parts/actuator.py: constants                                  *)
(***************************************************************************)
PULSE_MAX == 4095

LEFT_ANGLE == -1

RIGHT_ANGLE == 1

MIN_THROTTLE == -1

MAX_THROTTLE == 1

(***************************************************************************)
(* Inputs.  A control value n stands for the float n / 2.                  *)
(***************************************************************************)
Controls == {-2, -1, 0, 1, 2}

Control(n) == Ratio(n, 2)

\* the pulse codes the calibrations below are drawn from
Pulses == {0, 49, 93, 220, 370, 460}

\* the codes handed directly to PulseController.run
Codes == {-1, 0, 93, 4095, 4096}

\* pwm_scale: 1.0 (the default), 0.5, 2.0
Scales == {Ratio(1, 1), Ratio(1, 2), Ratio(2, 1)}

MaxShutdown == 2

\* map_range on the inputs above, computed once
MapTable ==
    [n \in Controls, X \in {<<-1, 1>>, <<0, 1>>, <<-1, 0>>}, Y_min \in Pulses, Y_max \in Pulses |->
        IF map_range_raises(Y_min, Y_max) THEN 0
        ELSE map_range(Control(n), X[1], X[2], Y_min, Y_max)]

(***************************************************************************)
(* State                                                                   *)
(***************************************************************************)
VARIABLES
    args,       \* the arguments of PulseController(...) and of the actuator
    pin,        \* the PwmPin: its state, the start() calls, the last duty cycle
    started,    \* PulseController.started
    pulse,      \* PWMSteering.pulse, PWMThrottle.pulse
    running,    \* PWMSteering.running, PWMThrottle.running
    pc,         \* where each context stands
    loc,        \* the pulse argument of each context's set_pulse call
    calib,      \* history: the pulses the constructor has passed to set_pulse
    written,    \* history: the pulses stored by set_target (run_threaded, run)
    shutdowns   \* history: the number of shutdown() calls

vars == <<args, pin, started, pulse, running, pc, loc, calib, written, shutdowns>>

\* main constructs; drive runs update(); prod calls run_threaded();
\* once calls run(); shut calls shutdown(); ctl calls PulseController.run()
Threads == {"main", "drive", "prod", "once", "shut", "ctl"}

Args(kind, controller, p, pwm_scale, pwm_inverted, pin_state) ==
    [kind |-> kind, controller |-> controller,
     left_pulse |-> p[1], right_pulse |-> p[2],
     max_pulse |-> p[1], min_pulse |-> p[2], zero_pulse |-> p[3],
     scale |-> pwm_scale, inverted |-> pwm_inverted, pin_state |-> pin_state]

\* PulseController.__init__
ControllerInit(a) ==
    /\ args = a
    /\ pin = [state |-> a.pin_state, starts |-> 0, wrote |-> FALSE, code |-> 0, duty |-> 0]
    /\ started = (a.pin_state # "NOT_STARTED")
    /\ pulse = 0
    /\ running = FALSE
    /\ pc = [t \in Threads |-> "idle"]
    /\ loc = [t \in Threads |-> 0]
    /\ calib = <<>>
    /\ written = {}
    /\ shutdowns = 0

Constructed == pc["main"] \in {"constructed", "loop_forever"}

(***************************************************************************)
(* PulseController.set_pulse                                               *)
(***************************************************************************)
set_pulse_raises(p) == p < 0 \/ p > PULSE_MAX

\* int(pulse * self.scale), the numerator of the duty cycle written
DutyNumerator(p) ==
    FTrunc(FMulInt(IF args.inverted THEN PULSE_MAX - p ELSE p, args.scale))

\* a whole call set_pulse(p) that nothing interleaves with
SetPulseCall(p) ==
    /\ IF set_pulse_raises(p)
       THEN UNCHANGED <<pin, started>>
       ELSE /\ pin' = [state |-> IF started THEN pin.state ELSE "STARTED",
                       starts |-> IF started THEN pin.starts ELSE pin.starts + 1,
                       wrote |-> TRUE, code |-> p, duty |-> DutyNumerator(p)]
            /\ started' = TRUE

\* where a context goes when its set_pulse call returns, and when it raises
Return(t) ==
    CASE t = "drive" -> "upd_test"
      [] t = "shut" -> "sh_stop"
      [] t = "once" -> "idle"
      [] t = "ctl" -> "returned"

Raise(t) == IF t = "once" THEN "idle" ELSE "raised"

\* a set_pulse that clamps the pulse into 0..4095 instead of raising
SetPulseEnterClamped(t) ==
    /\ pc[t] = "set_pulse"
    /\ loc' = [loc EXCEPT ![t] = IF loc[t] < 0 THEN 0
                                  ELSE IF loc[t] > PULSE_MAX THEN PULSE_MAX ELSE loc[t]]
    /\ pc' = [pc EXCEPT ![t] = IF ~started THEN "start" ELSE "duty"]
    /\ UNCHANGED <<args, pin, started, pulse, running, calib, written, shutdowns>>

\* lines 94-97: the range check, then the test of self.started
SetPulseEnter(t) ==
    /\ pc[t] = "set_pulse"
    /\ pc' = [pc EXCEPT ![t] = IF set_pulse_raises(loc[t]) THEN Raise(t)
                               ELSE IF ~started THEN "start" ELSE "duty"]
    /\ UNCHANGED <<args, pin, started, pulse, running, loc, calib, written, shutdowns>>

\* line 98: self.pwm_pin.start()
PinStart(t) ==
    /\ pc[t] = "start"
    /\ pin' = [pin EXCEPT !.state = "STARTED", !.starts = @ + 1]
    /\ pc' = [pc EXCEPT ![t] = "mark"]
    /\ UNCHANGED <<args, started, pulse, running, loc, calib, written, shutdowns>>

\* a set_pulse that forgets to record the start
MarkStartedForgotten(t) ==
    /\ pc[t] = "mark"
    /\ pc' = [pc EXCEPT ![t] = "duty"]
    /\ UNCHANGED <<args, pin, started, pulse, running, loc, calib, written, shutdowns>>

\* line 99: self.started = True
MarkStarted(t) ==
    /\ pc[t] = "mark"
    /\ started' = TRUE
    /\ pc' = [pc EXCEPT ![t] = "duty"]
    /\ UNCHANGED <<args, pin, pulse, running, loc, calib, written, shutdowns>>

\* a set_pulse that scales the pulse first and inverts the scaled value
DutyWriteScaleFirst(t) ==
    /\ pc[t] = "duty"
    /\ pin' = [pin EXCEPT !.wrote = TRUE, !.code = loc[t],
                          !.duty = IF args.inverted
                                   THEN PULSE_MAX - FTrunc(FMulInt(loc[t], args.scale))
                                   ELSE FTrunc(FMulInt(loc[t], args.scale))]
    /\ pc' = [pc EXCEPT ![t] = Return(t)]
    /\ UNCHANGED <<args, started, pulse, running, loc, calib, written, shutdowns>>

\* lines 100-102: the inversion and the duty cycle written to the pin; the
\* fraction written is pin.duty / 4095
DutyWrite(t) ==
    /\ pc[t] = "duty"
    /\ pin' = [pin EXCEPT !.wrote = TRUE, !.code = loc[t], !.duty = DutyNumerator(loc[t])]
    /\ pc' = [pc EXCEPT ![t] = Return(t)]
    /\ UNCHANGED <<args, started, pulse, running, loc, calib, written, shutdowns>>

(***************************************************************************)
(* PWMSteering, PWMThrottle                                                *)
(***************************************************************************)
Mapped(n, X_min, X_max, Y_min, Y_max) == MapTable[n, <<X_min, X_max>>, Y_min, Y_max]

\* PWMSteering.run_threaded: the pulse stored for the angle n / 2
steering_raises == map_range_raises(args.left_pulse, args.right_pulse)

steering_pulse(n) ==
    Mapped(n, LEFT_ANGLE, RIGHT_ANGLE, args.left_pulse, args.right_pulse)

\* PWMThrottle.run_threaded: the pulse stored for the throttle n / 2
throttle_raises(n) ==
    IF n > 0 THEN map_range_raises(args.zero_pulse, args.max_pulse)
    ELSE map_range_raises(args.min_pulse, args.zero_pulse)

throttle_pulse(n) ==
    IF n > 0 THEN Mapped(n, 0, MAX_THROTTLE, args.zero_pulse, args.max_pulse)
    ELSE Mapped(n, MIN_THROTTLE, 0, args.min_pulse, args.zero_pulse)

target_raises(n) == IF args.kind = "steering" THEN steering_raises ELSE throttle_raises(n)

target_pulse(n) == IF args.kind = "steering" THEN steering_pulse(n) ELSE throttle_pulse(n)

\* a check that only rejects a missing controller
controller_not_none == args.controller # "None"

\* lines 121-125, 167-171: the controller is there and has a callable set_pulse
controller_ok == args.controller = "set_pulse"

\* PWMSteering.__init__
SteeringInit ==
    /\ args.kind = "steering"
    /\ pc["main"] = "idle"
    /\ IF ~controller_ok \/ steering_raises
       THEN /\ pc' = [pc EXCEPT !["main"] = "raised"]
            /\ UNCHANGED <<pulse, running>>
       ELSE /\ pulse' = steering_pulse(0)
            /\ running' = TRUE
            /\ pc' = [pc EXCEPT !["main"] = "constructed"]
    /\ UNCHANGED <<args, pin, started, loc, calib, written, shutdowns>>

\* PWMThrottle.__init__, lines 167-177
ThrottleInit ==
    /\ args.kind = "throttle"
    /\ pc["main"] = "idle"
    /\ IF ~controller_ok
       THEN /\ pc' = [pc EXCEPT !["main"] = "raised"]
            /\ UNCHANGED pulse
       ELSE /\ pulse' = args.zero_pulse
            /\ pc' = [pc EXCEPT !["main"] = "cal_max"]
    /\ UNCHANGED <<args, pin, started, running, loc, calib, written, shutdowns>>

\* one calibration pulse of PWMThrottle.__init__ and the sleep after it
Calibrate(at, p, next) ==
    /\ pc["main"] = at
    /\ SetPulseCall(p)
    /\ calib' = Append(calib, p)
    /\ pc' = [pc EXCEPT !["main"] = IF set_pulse_raises(p) THEN "raised" ELSE next]
    /\ UNCHANGED <<args, pulse, running, loc, written, shutdowns>>

\* lines 181-182
CalibrateMax == Calibrate("cal_max", args.max_pulse, "cal_min")

\* a calibration that sends the zero pulse where the min pulse belongs
CalibrateMinWrong == Calibrate("cal_min", args.zero_pulse, "cal_zero")

\* lines 183-184
CalibrateMin == Calibrate("cal_min", args.min_pulse, "cal_zero")

\* lines 185-186
CalibrateZero == Calibrate("cal_zero", args.zero_pulse, "cal_done")

\* line 187
ThrottleRunning ==
    /\ pc["main"] = "cal_done"
    /\ running' = TRUE
    /\ pc' = [pc EXCEPT !["main"] = "constructed"]
    /\ UNCHANGED <<args, pin, started, pulse, loc, calib, written, shutdowns>>

\* update(): a thread starts the loop
UpdateStart ==
    /\ Constructed
    /\ pc["drive"] = "idle"
    /\ pc' = [pc EXCEPT !["drive"] = "upd_test"]
    /\ UNCHANGED <<args, pin, started, pulse, running, loc, calib, written, shutdowns>>

\* a loop that never looks at self.running
UpdateTestForever ==
    /\ pc["drive"] = "upd_test"
    /\ pc' = [pc EXCEPT !["drive"] = "upd_load"]
    /\ UNCHANGED <<args, pin, started, pulse, running, loc, calib, written, shutdowns>>

\* while self.running
UpdateTest ==
    /\ pc["drive"] = "upd_test"
    /\ pc' = [pc EXCEPT !["drive"] = IF running THEN "upd_load" ELSE "returned"]
    /\ UNCHANGED <<args, pin, started, pulse, running, loc, calib, written, shutdowns>>

\* a read of self.pulse that sees only its high byte
UpdateLoadTorn ==
    /\ pc["drive"] = "upd_load"
    /\ loc' = [loc EXCEPT !["drive"] = pulse - (pulse % 256)]
    /\ pc' = [pc EXCEPT !["drive"] = "set_pulse"]
    /\ UNCHANGED <<args, pin, started, pulse, running, calib, written, shutdowns>>

\* an iteration that sends again the target it read before, once it has one
UpdateLoadBuffered ==
    /\ pc["drive"] = "upd_load"
    /\ loc' = [loc EXCEPT !["drive"] = IF pin.wrote THEN @ ELSE pulse]
    /\ pc' = [pc EXCEPT !["drive"] = "set_pulse"]
    /\ UNCHANGED <<args, pin, started, pulse, running, calib, written, shutdowns>>

\* the argument self.pulse of self.controller.set_pulse(self.pulse)
UpdateLoad ==
    /\ pc["drive"] = "upd_load"
    /\ loc' = [loc EXCEPT !["drive"] = pulse]
    /\ pc' = [pc EXCEPT !["drive"] = "set_pulse"]
    /\ UNCHANGED <<args, pin, started, pulse, running, calib, written, shutdowns>>

\* pc["prod"] after a target is stored: "late" once a shutdown() has begun
Stored == IF shutdowns > 0 THEN "late" ELSE pc["prod"]

\* run_threaded(n / 2): self.pulse = map_range(...), unless map_range raises
StoreTarget(n) ==
    IF target_raises(n)
    THEN UNCHANGED <<pulse, written>>
    ELSE /\ pulse' = target_pulse(n)
         /\ written' = written \cup {target_pulse(n)}

\* a run_threaded that also writes the new target to the pin
RunThreadedSends(n) ==
    /\ Constructed
    /\ StoreTarget(n)
    /\ pc' = [pc EXCEPT !["prod"] = IF target_raises(n) THEN @ ELSE Stored]
    /\ pin' = IF target_raises(n) \/ set_pulse_raises(target_pulse(n)) THEN pin
              ELSE [pin EXCEPT !.wrote = TRUE, !.code = target_pulse(n),
                               !.duty = DutyNumerator(target_pulse(n))]
    /\ UNCHANGED <<args, started, running, loc, calib, shutdowns>>

\* run_threaded(n / 2) called by the producer
RunThreaded(n) ==
    /\ Constructed
    /\ StoreTarget(n)
    /\ pc' = [pc EXCEPT !["prod"] = IF target_raises(n) THEN @ ELSE Stored]
    /\ UNCHANGED <<args, pin, started, running, loc, calib, shutdowns>>

\* a run that sets running again
RunStoreRevives(n) ==
    /\ Constructed
    /\ pc["once"] = "idle"
    /\ StoreTarget(n)
    /\ running' = TRUE
    /\ pc' = [pc EXCEPT !["once"] = IF target_raises(n) THEN @ ELSE "run_load"]
    /\ UNCHANGED <<args, pin, started, loc, calib, shutdowns>>

\* run(n / 2): its run_threaded
RunStore(n) ==
    /\ Constructed
    /\ pc["once"] = "idle"
    /\ IF target_raises(n)
       THEN UNCHANGED <<pulse, written, pc>>
       ELSE /\ pulse' = target_pulse(n)
            /\ written' = written \cup {target_pulse(n)}
            /\ pc' = [pc EXCEPT !["once"] = "run_load", !["prod"] = Stored]
    /\ UNCHANGED <<args, pin, started, running, loc, calib, shutdowns>>

\* run, shutdown: the argument self.pulse of set_pulse
RunLoad(t) ==
    /\ pc[t] = "run_load"
    /\ loc' = [loc EXCEPT ![t] = pulse]
    /\ pc' = [pc EXCEPT ![t] = "set_pulse"]
    /\ UNCHANGED <<args, pin, started, pulse, running, calib, written, shutdowns>>

\* PWMSteering.shutdown, line 152
SteeringShutdown ==
    /\ Constructed
    /\ args.kind = "steering"
    /\ pc["shut"] \in {"idle", "done"}
    /\ shutdowns < MaxShutdown
    /\ shutdowns' = shutdowns + 1
    /\ pulse' = 0
    /\ pc' = [pc EXCEPT !["shut"] = "sh_sleep"]
    /\ UNCHANGED <<args, pin, started, running, loc, calib, written>>

\* lines 153-154: the sleep is over
SteeringStop ==
    /\ pc["shut"] = "sh_sleep"
    /\ running' = FALSE
    /\ pc' = [pc EXCEPT !["shut"] = "done"]
    /\ UNCHANGED <<args, pin, started, pulse, loc, calib, written, shutdowns>>

\* PWMThrottle.shutdown, line 209: the run_threaded(0) of self.run(0)
ThrottleShutdown ==
    /\ Constructed
    /\ args.kind = "throttle"
    /\ pc["shut"] \in {"idle", "done", "raised"}
    /\ shutdowns < MaxShutdown
    /\ shutdowns' = shutdowns + 1
    /\ IF throttle_raises(0)
       THEN /\ pc' = [pc EXCEPT !["shut"] = "raised"]
            /\ UNCHANGED pulse
       ELSE /\ pulse' = throttle_pulse(0)
            /\ pc' = [pc EXCEPT !["shut"] = "run_load"]
    /\ UNCHANGED <<args, pin, started, running, loc, calib, written>>

\* line 210
ThrottleStop ==
    /\ pc["shut"] = "sh_stop"
    /\ running' = FALSE
    /\ pc' = [pc EXCEPT !["shut"] = "done"]
    /\ UNCHANGED <<args, pin, started, pulse, loc, calib, written, shutdowns>>

(***************************************************************************)
(* The actuator with its contexts: one running update(), one calling       *)
(* run_threaded, one calling run, one calling shutdown.                    *)
(***************************************************************************)
SteeringWirings ==
    {Args("steering", "set_pulse", p, Ratio(1, 1), FALSE, "NOT_STARTED") :
        p \in {<<220, 460, 0>>, <<49, 0, 0>>}}

ThrottleWirings ==
    {Args("throttle", "set_pulse", p, Ratio(1, 1), FALSE, "NOT_STARTED") :
        p \in {<<460, 220, 370>>, <<460, 370, 370>>, <<4096, 220, 370>>}}

\* the control values -1.0, 0.0, 1.0 the contexts pass
Targets == {-2, 0, 2}

Init == \E a \in SteeringWirings \cup ThrottleWirings : ControllerInit(a)

Construct ==
    \/ SteeringInit
    \/ ThrottleInit
    \/ CalibrateMax
    \/ CalibrateMin
    \/ CalibrateZero
    \/ ThrottleRunning

Update ==
    \/ UpdateStart
    \/ UpdateTest
    \/ UpdateLoad

SetPulse(t) ==
    \/ SetPulseEnter(t)
    \/ PinStart(t)
    \/ MarkStarted(t)
    \/ DutyWrite(t)

SetTarget == \E n \in Targets : RunThreaded(n)

DriveOnce ==
    \/ \E n \in Targets : RunStore(n)
    \/ RunLoad("once")

Shutdown ==
    \/ SteeringShutdown
    \/ SteeringStop
    \/ ThrottleShutdown
    \/ RunLoad("shut")
    \/ ThrottleStop

Next ==
    \/ Construct
    \/ Update
    \/ SetPulse("drive")
    \/ SetTarget
    \/ DriveOnce
    \/ SetPulse("once")
    \/ Shutdown
    \/ SetPulse("shut")

Spec == Init /\ [][Next]_vars

(***************************************************************************)
(* A PulseController alone: one caller, one call of run(code) at a time.   *)
(***************************************************************************)
\* PulseController.run, called with any int
ControllerRun(c) ==
    /\ pc["ctl"] \in {"idle", "returned", "raised"}
    /\ loc' = [loc EXCEPT !["ctl"] = c]
    /\ pc' = [pc EXCEPT !["ctl"] = "set_pulse"]
    /\ UNCHANGED <<args, pin, started, pulse, running, calib, written, shutdowns>>

ControllerWirings ==
    {Args("none", "set_pulse", <<0, 0, 0>>, sc, inv, st) :
        sc \in Scales, inv \in BOOLEAN, st \in {"NOT_STARTED", "STARTED"}}

InitCtl == \E a \in ControllerWirings : ControllerInit(a)

NextCtl ==
    \/ \E c \in Codes : ControllerRun(c)
    \/ SetPulse("ctl")

SpecCtl == InitCtl /\ [][NextCtl]_vars

(***************************************************************************)
(* pca9685.cli.execute_from_command_line: the actuator is constructed, the *)
(* mqtt client connects, and loop_forever calls on_message for each        *)
(* message until SIGTERM.                                                  *)
(***************************************************************************)
\* client.connect(...), then client.loop_forever(); connect may raise
CliConnect ==
    /\ pc["main"] = "constructed"
    /\ \E r \in {"loop_forever", "raised"} : pc' = [pc EXCEPT !["main"] = r]
    /\ UNCHANGED <<args, pin, started, pulse, running, loc, calib, written, shutdowns>>

\* on_steering_message, on_throttle_message with a message carrying n / 2:
\* run_threaded, any exception logged and the message skipped
CliMessage(n) ==
    /\ pc["main"] = "loop_forever"
    /\ StoreTarget(n)
    /\ loc' = [loc EXCEPT !["prod"] = n]
    /\ pc' = [pc EXCEPT !["prod"] = IF target_raises(n) THEN "skipped" ELSE "handled"]
    /\ UNCHANGED <<args, pin, started, running, calib, shutdowns>>

\* SignalHandler.sigterm_handler: disconnect, sys.exit(0)
CliSigterm ==
    /\ pc["main"] = "loop_forever"
    /\ pc' = [pc EXCEPT !["main"] = "exited"]
    /\ UNCHANGED <<args, pin, started, pulse, running, loc, calib, written, shutdowns>>

\* PulseController(pin) with its defaults, the pulses from the command line
CliWirings ==
    {Args("steering", "set_pulse", <<l, r, 0>>, Ratio(1, 1), FALSE, "NOT_STARTED") :
        l \in Pulses, r \in Pulses}
    \cup
    {Args("throttle", "set_pulse", <<M, m, z>>, Ratio(1, 1), FALSE, "NOT_STARTED") :
        M \in Pulses, m \in Pulses, z \in Pulses}

InitCli == \E a \in CliWirings : ControllerInit(a)

NextCli ==
    \/ Construct
    \/ CliConnect
    \/ \E n \in Controls : CliMessage(n)
    \/ CliSigterm

SpecCli == InitCli /\ [][NextCli]_vars

(***************************************************************************)
(* update() scheduled fairly, with the producer and shutdown() beside it.  *)
(***************************************************************************)
FairWirings ==
    {Args("steering", "set_pulse", p, Ratio(1, 1), FALSE, "NOT_STARTED") :
        p \in {<<220, 460, 0>>, <<49, 0, 0>>}}
    \cup
    {Args("throttle", "set_pulse", p, Ratio(1, 1), FALSE, "NOT_STARTED") :
        p \in {<<460, 220, 370>>, <<93, 49, 0>>}}

InitFair == \E a \in FairWirings : ControllerInit(a)

NextFair ==
    \/ Construct
    \/ Update
    \/ SetPulse("drive")
    \/ SetTarget
    \/ Shutdown
    \/ SetPulse("shut")

FairSpec == InitFair /\ [][NextFair]_vars /\ WF_vars(Update \/ SetPulse("drive"))

(***************************************************************************)
(* Construction with any controller argument; update() and run_threaded   *)
(* after it.                                                               *)
(***************************************************************************)
\* controller: None, an object without set_pulse, one whose set_pulse is
\* not callable, a PulseController
Controllers == {"None", "no_set_pulse", "not_callable", "set_pulse"}

NewWirings ==
    {Args(k, c, p, Ratio(1, 1), FALSE, "NOT_STARTED") :
        k \in {"steering", "throttle"}, c \in Controllers,
        p \in {<<460, 220, 370>>, <<220, 460, 370>>, <<93, 49, 0>>, <<370, 370, 370>>}}

InitNew == \E a \in NewWirings : ControllerInit(a)

NextNew ==
    \/ Construct
    \/ Update
    \/ SetPulse("drive")
    \/ SetTarget

SpecNew == InitNew /\ [][NextNew]_vars

(***************************************************************************)
(* Properties                                                              *)
(***************************************************************************)
\* the calls between the entry of set_pulse and its return
InSetPulse(t) == pc[t] \in {"set_pulse", "start", "mark", "duty"}

\* the target the constructor stores
InitialPulse == IF args.kind = "steering" THEN steering_pulse(0) ELSE args.zero_pulse

\* C1: once the throttle's one shutdown() has returned and update() has
\* terminated, no target having been stored since that shutdown() began and
\* no run() having been called, the last pulse written to the pin is
\* zero_pulse.
C1_FailSafeShutdown ==
    (/\ args.kind = "throttle"
     /\ shutdowns = 1
     /\ pc["shut"] = "done"
     /\ pc["drive"] = "returned"
     /\ pc["once"] = "idle" /\ loc["once"] = 0
     /\ pc["prod"] # "late")
    => (pin.wrote /\ pin.code = args.zero_pulse)

\* C2: the steering's shutdown() stores the pulse of angle 0, the
\* straight-ahead pulse between left_pulse and right_pulse, as the target
\* (no set_target call interferes).
C2_ShutdownStoresStraight ==
    (/\ args.kind = "steering"
     /\ pc["shut"] \in {"sh_sleep", "done"}
     /\ written = {})
    => pulse = steering_pulse(0)

\* C3: the throttle's constructor passes exactly max_pulse, min_pulse,
\* zero_pulse to set_pulse, in this order, before running is set and before
\* any other context sends a pulse.
C3_CalibrationSequence ==
    args.kind = "throttle" =>
        LET seq == <<args.max_pulse, args.min_pulse, args.zero_pulse>> IN
        /\ Len(calib) <= 3
        /\ \A i \in 1..Len(calib) : calib[i] = seq[i]
        /\ (running \/ Constructed) => calib = seq
        /\ ~Constructed =>
              /\ ~running
              /\ \A t \in Threads \ {"main"} : pc[t] = "idle"
              /\ pin.wrote => (calib # <<>> /\ pin.code = calib[Len(calib)])

C3_Witness ==
    /\ args.kind = "throttle"
    /\ running
    /\ calib = <<args.max_pulse, args.min_pulse, args.zero_pulse>>
    /\ pc["drive"] = "upd_load"
    /\ pin.code = args.zero_pulse

\* C4: set_pulse with a code outside 0..4095 raises: it calls no start(),
\* writes no duty cycle and leaves the started flag as it was.
C4_RangeErrorNoEffect ==
    [][(pc["ctl"] = "set_pulse" /\ set_pulse_raises(loc["ctl"]))
         => (pc'["ctl"] = "raised" /\ pin' = pin /\ started' = started)]_vars

C4_Witness ==
    /\ pc["ctl"] = "raised"
    /\ loc["ctl"] = 4096
    /\ pin.wrote
    /\ pin.code = 93

\* C5 as claimed: after one or more set_pulse calls, start() has been
\* called exactly once.
C5_StartExactlyOnce == pc["ctl"] \in {"returned", "raised"} => pin.starts = 1

\* C5 amended: over a sequence of set_pulse calls start() is called at most
\* once: once, by the first call with a code in 0..4095, when the pin was
\* NOT_STARTED at construction, and never otherwise.
C5_StartOnceWhenNeeded ==
    /\ pin.starts <= 1
    /\ pin.wrote => pin.starts = (IF args.pin_state = "NOT_STARTED" THEN 1 ELSE 0)
    /\ args.pin_state # "NOT_STARTED" => pin.starts = 0
    /\ (pc["ctl"] \in {"idle", "raised"} /\ ~pin.wrote) => pin.starts = 0

C5_Witness ==
    /\ args.pin_state = "NOT_STARTED"
    /\ pc["ctl"] = "duty"
    /\ pin.wrote
    /\ pin.code # loc["ctl"]
    /\ pin.starts = 1

\* C6: when two contexts make the first set_pulse calls concurrently,
\* start() is called at most once.
C6_StartAtMostOnce == pin.starts <= 1

\* C7 as claimed: every pulse update() passes to set_pulse, before any
\* shutdown(), was stored by a set_target call before.
C7_SendsWrittenOnly ==
    (InSetPulse("drive") /\ shutdowns = 0) => loc["drive"] \in written

\* C7 amended: every pulse update() passes to set_pulse, before any
\* shutdown(), was stored before by a set_target call or is the initial
\* target the constructor stored.
C7_SendsStoredOnly ==
    (InSetPulse("drive") /\ shutdowns = 0) => loc["drive"] \in written \cup {InitialPulse}

C7_Witness ==
    /\ pc["drive"] = "duty"
    /\ shutdowns = 0
    /\ loc["drive"] \in written
    /\ loc["drive"] # InitialPulse
    /\ pulse # loc["drive"]

\* C8: while the actuator is running and update() is active, a pulse is
\* written to the controller again and again, whatever targets in [-1, 1]
\* are stored.
C8_KeepsRefreshing ==
    []((running /\ pc["drive"] # "idle") => <>(pc["drive"] = "duty" \/ ~running))

\* C9: in the running program, once a message's target is stored, a task
\* executing update() exists to push it to the pin.
C9_DriveTaskExists ==
    (pc["main"] = "loop_forever" /\ pc["prod"] = "handled") => pc["drive"] # "idle"

\* the interpolation of throttle n / 2 on its segment, truncated
ThrottleExact(n) ==
    IF n > 0
    THEN args.zero_pulse + (n * (args.max_pulse - args.zero_pulse)) \div 2
    ELSE args.min_pulse + ((n + 2) * (args.zero_pulse - args.min_pulse)) \div 2

\* C10: with distinct min_pulse, zero_pulse, max_pulse in 0..4095, the
\* target stored for a throttle is its interpolation on the forward segment
\* zero_pulse..max_pulse (throttle > 0) or the reverse segment
\* min_pulse..zero_pulse, truncated: zero_pulse for 0, max_pulse for 1,
\* min_pulse for -1.
C10_ThrottleMapping ==
    (/\ args.kind = "throttle"
     /\ Cardinality({args.min_pulse, args.zero_pulse, args.max_pulse}) = 3
     /\ pc["prod"] = "handled")
    => pulse = ThrottleExact(loc["prod"])

\* the pulse of angle n / 2 for n in {-2, 0, 2}: left_pulse, the midpoint
\* truncated toward zero, right_pulse
SteeringExact(n) ==
    IF n = -2 THEN args.left_pulse
    ELSE IF n = 2 THEN args.right_pulse
    ELSE (args.left_pulse + args.right_pulse) \div 2

\* C11: with distinct left_pulse and right_pulse in 0..4095, in either
\* order, the target stored for angle -1 is left_pulse, for angle 1
\* right_pulse, and for angle 0 the midpoint (left_pulse + right_pulse) / 2
\* truncated toward zero.
C11_SteeringMapping ==
    (/\ args.kind = "steering"
     /\ args.left_pulse # args.right_pulse
     /\ pc["prod"] = "handled"
     /\ loc["prod"] \in {-2, 0, 2})
    => pulse = SteeringExact(loc["prod"])

\* pwm_scale as a fraction <<numerator, denominator>>
ScaleFraction ==
    CHOOSE q \in {<<1, 1>>, <<1, 2>>, <<2, 1>>} : Ratio(q[1], q[2]) = args.scale

\* floor(c' * scale), c' the code c or its inversion, in integer arithmetic
FloorScaled(c) ==
    ((IF args.inverted THEN PULSE_MAX - c ELSE c) * ScaleFraction[1]) \div ScaleFraction[2]

\* C12: a set_pulse(c) call with c in 0..4095 writes one duty cycle to the
\* pin, floor(c' * scale) / 4095 with c' = 4095 - c if inverted and c
\* otherwise: the call returns by the step that writes it, and no other step
\* of the call writes to the pin.
C12_DutyCycleWritten ==
    [][/\ pc'["ctl"] = "returned" =>
            /\ pc["ctl"] = "duty"
            /\ ~set_pulse_raises(loc["ctl"])
            /\ pin'.wrote
            /\ pin'.code = loc["ctl"]
            /\ pin'.duty = FloorScaled(loc["ctl"])
       /\ (pc'["ctl"] # "returned" /\ pin.wrote) =>
            (pin'.wrote /\ pin'.code = pin.code /\ pin'.duty = pin.duty)
       /\ (pc'["ctl"] # "returned" /\ ~pin.wrote) => ~pin'.wrote]_vars

C12_Witness ==
    /\ args.inverted
    /\ args.scale = Ratio(1, 1)
    /\ pc["ctl"] = "returned"
    /\ loc["ctl"] = 0
    /\ pin.wrote
    /\ pin.duty = PULSE_MAX

\* C13: after shutdown() has been called twice in a row on an actuator,
\* nothing else being called, neither call has raised and running is false.
C13_ShutdownTwice ==
    (/\ shutdowns = 2
     /\ pc["shut"] \in {"done", "raised"}
     /\ pc["drive"] = "idle"
     /\ written = {})
    => (pc["shut"] = "done" /\ ~running)

\* C14: with a controller that is absent or has no callable set_pulse, the
\* constructor raises before any hardware call: no start, no duty cycle, no
\* calibration pulse, running never set, and no update() can follow.
C14_BadControllerFailsFast ==
    args.controller # "set_pulse" =>
        /\ pc["main"] \in {"idle", "raised"}
        /\ ~pin.wrote
        /\ pin.starts = 0
        /\ ~started
        /\ calib = <<>>
        /\ ~running
        /\ pc["drive"] = "idle"

C14_Witness ==
    /\ args.kind = "throttle"
    /\ args.controller = "not_callable"
    /\ pc["main"] = "raised"
    /\ ~pin.wrote

\* C15: a run_threaded call only replaces the stored target: it makes no
\* controller call (no start, no duty cycle written) and leaves the running
\* flag, the calibration pulses and the controller's started flag as they
\* were.
C15_SetTargetFrame ==
    [][\A n \in Targets :
          RunThreaded(n) =>
              /\ pin' = pin
              /\ started' = started
              /\ running' = running
              /\ args' = args
              /\ calib' = calib]_vars

C15_Witness ==
    /\ Constructed
    /\ running
    /\ written # {}
    /\ pulse \in written
    /\ pulse # InitialPulse
    /\ ~pin.wrote
    /\ pin.starts = 0
    /\ ~started

\* C16: update() stops only through shutdown(): whenever a started update()
\* has left its loop, by returning or by an exception, shutdown() has been
\* called; no target stored by run_threaded makes it stop.
C16_OnlyShutdownStops ==
    pc["drive"] \in {"returned", "raised"} => shutdowns > 0

\* C17: once shutdown() has set running to false, a running update()
\* finishes at most the set_pulse call in progress, reads the flag at the
\* top of its loop, where its only step is to return, and so terminates.
C17_CancellationTerminates ==
    /\ []((shutdowns > 0 /\ ~running /\ pc["drive"] # "idle")
            => <>(pc["drive"] \in {"returned", "raised"}))
    /\ [][(shutdowns > 0 /\ ~running /\ pc["drive"] = "upd_test")
            => pc'["drive"] \in {"upd_test", "returned"}]_vars

C17_Witness ==
    /\ shutdowns > 0
    /\ ~running
    /\ pc["shut"] = "done"
    /\ pc["drive"] = "duty"

\* C18: an iteration of update() reads the one slot self.pulse after it has
\* begun and sends what it read: the target stored last at that moment, so
\* never a target replaced before the iteration began.
C18_LatestValueSent ==
    [][/\ (pc["drive"] = "upd_load" /\ pc'["drive"] # "upd_load") =>
            (pc'["drive"] = "set_pulse" /\ loc'["drive"] = pulse)
       /\ (InSetPulse("drive") /\ pc'["drive"] # "upd_load") =>
            loc'["drive"] = loc["drive"]
       /\ (pc["drive"] = "duty" /\ pc'["drive"] # "duty") =>
            (pc'["drive"] = "upd_test" /\ pin'.code = loc["drive"])
       /\ pc'["drive"] = "upd_load" => pc["drive"] \in {"upd_test", "upd_load"}]_vars

C18_Witness ==
    /\ pc["drive"] = "duty"
    /\ shutdowns = 0
    /\ loc["drive"] = pulse
    /\ pulse \in written
    /\ pin.wrote
    /\ pin.code # pulse
    /\ pin.code \in written

\* C19: once shutdown() has set running to false, no step sets it to true
\* again, and an update() that is called or reaches its loop test afterwards
\* returns without entering set_pulse.
C19_StoppedIsTerminal ==
    [][(shutdowns > 0 /\ ~running) =>
          /\ ~running'
          /\ pc["drive"] \in {"idle", "upd_test"} =>
                pc'["drive"] \in {"idle", "upd_test", "returned"}]_vars

C19_Witness ==
    /\ shutdowns = 2
    /\ ~running
    /\ pc["shut"] = "done"
    /\ pc["prod"] = "late"
    /\ pc["once"] = "idle"
    /\ loc["once"] # 0
    /\ pc["drive"] = "returned"
    /\ loc["drive"] = 0

\* C20: every duty cycle written to the pin is a fraction in [0, 1]: its
\* numerator lies in 0..4095, for every accepted code, either inversion and
\* every scale.
C20_DutyCycleInRange ==
    pin.wrote => (pin.duty >= 0 /\ pin.duty <= PULSE_MAX)

\* the endpoints of the segment run_threaded(n / 2) interpolates on
SegmentEnds(n) ==
    IF args.kind = "steering" THEN <<args.left_pulse, args.right_pulse>>
    ELSE IF n > 0 THEN <<args.zero_pulse, args.max_pulse>>
    ELSE <<args.min_pulse, args.zero_pulse>>

Between(x, a, b) == (a <= x /\ x <= b) \/ (b <= x /\ x <= a)

\* C21: for any calibration pulses in 0..4095, coinciding ones included,
\* and any input in [-1, 1], run_threaded does not raise and the target it
\* stores is a pulse in 0..4095 between the two endpoints of the segment
\* used.
C21_TargetAccepted ==
    pc["prod"] \in {"handled", "skipped"} =>
        /\ pc["prod"] = "handled"
        /\ pulse >= 0 /\ pulse <= PULSE_MAX
        /\ Between(pulse, SegmentEnds(loc["prod"])[1], SegmentEnds(loc["prod"])[2])

\* C22: when the throttle's shutdown() has ended by an exception of its
\* run(0), running is false all the same.
C22_FailedShutdownStops ==
    (args.kind = "throttle" /\ shutdowns > 0 /\ pc["shut"] = "raised") => ~running

====
